---- MODULE Spec2Model ----
(***************************************************************************)
(* A model of jsx-pdf's resolution engine (src/src/index.js): createElement,*)
(* resolve, validateTag, appendChildToChildren, resolveChildrenSync,        *)
(* resolveChildren, resolveIntrinsicChildren and renderPdf.                 *)
(*                                                                          *)
(* JavaScript values are tagged records (field t is the typeof/class).      *)
(* Context objects live in a heap (a sequence of mappings) and are passed   *)
(* by address, because the code shares and copies them by reference.        *)
(***************************************************************************)
EXTENDS Integers, Sequences, FiniteSets, TLC

VARIABLES tag, pc, heap, context, resolvedTag, idx, result, assigned,
          log, rp, visited, accs, error, output, calls, createArgs, element,
          branch, syncResult, asyncResult

vars == <<tag, pc, heap, context, resolvedTag, idx, result, assigned,
          log, rp, visited, accs, error, output, calls, createArgs, element,
          branch, syncResult, asyncResult>>

(***************************************************************************)
(* Bounds of the model.                                                     *)
(***************************************************************************)
MaxChildren == 3
MaxContextChildren == 2
MaxCalls == 2
MaxPage == 2
MaxSections == 2
MaxDepth == 2

(***************************************************************************)
(* JavaScript values.                                                       *)
(***************************************************************************)
Null == [t |-> "null"]
Undefined == [t |-> "undefined"]
NaN == [t |-> "number", nan |-> TRUE, n |-> 0]
Num(n) == [t |-> "number", nan |-> FALSE, n |-> n]
Str(s) == [t |-> "string", s |-> s]
Bool(b) == [t |-> "boolean", b |-> b]
Obj(o) == [t |-> "object", o |-> o]
Arr(a) == [t |-> "array", a |-> a]
Fulfilled(v) == [t |-> "promise", state |-> "fulfilled", value |-> v]
Rejected(e) == [t |-> "promise", state |-> "rejected", value |-> e]
NoAttributes == <<>>
Node(elementName, attributes, children) ==
  [t |-> "node", elementName |-> elementName, attributes |-> attributes,
   children |-> children]

\* A user function: a component (called with props, context, updateContext)
\* or a render prop (called with currentPage, pageCount, pageSize).
Fn(id, async, update, ret) ==
  [t |-> "function", id |-> id, async |-> async, update |-> update, ret |-> ret]

\* JavaScript truthiness (the `!x` and `x && ...` tests of the code).
Truthy(v) ==
  CASE v.t = "null" -> FALSE
    [] v.t = "undefined" -> FALSE
    [] v.t = "boolean" -> v.b
    [] v.t = "number" -> (~v.nan) /\ v.n # 0
    [] v.t = "string" -> v.s # ""
    [] OTHER -> TRUE

\* lodash isNil
IsNil(v) == v.t \in {"null", "undefined"}

\* Property read x.elementName / x.children / x.attributes on a non-nil value.
ElementNameOf(v) == IF v.t = "node" THEN v.elementName ELSE Undefined
HasChildren(v) == v.t = "node"
ChildrenOf(v) == IF v.t = "node" THEN v.children ELSE <<>>
AttributesOf(v) == IF v.t = "node" THEN v.attributes ELSE NoAttributes

\* Property read o[k] on a mapping.
Get(o, k) == IF k \in DOMAIN o THEN o[k] ELSE Undefined
\* Object spread { ...a, ...b }: b wins on equal keys.
Spread(a, b) == b @@ a
Omit(o, keys) == [k \in (DOMAIN o) \ keys |-> o[k]]
Pick(o, keys) == [k \in (DOMAIN o) \cap keys |-> o[k]]

Digit(d) ==
  CASE d = 0 -> "0" [] d = 1 -> "1" [] d = 2 -> "2" [] d = 3 -> "3"
    [] d = 4 -> "4" [] d = 5 -> "5" [] d = 6 -> "6" [] d = 7 -> "7"
    [] d = 8 -> "8" [] d = 9 -> "9"

RECURSIVE NumToStr(_)
NumToStr(n) == IF n < 10 THEN Digit(n) ELSE NumToStr(n \div 10) \o Digit(n % 10)

\* String coercion of a template literal `${v}` for a text primitive.
ToStr(v) ==
  IF v.t = "string" THEN v.s
  ELSE IF v.nan THEN "NaN" ELSE NumToStr(v.n)

\* String(x) for a value used as a property key or named in a message.
KeyOf(v) ==
  CASE v.t = "string" -> v.s
    [] v.t = "number" -> ToStr(v)
    [] v.t = "function" -> "function " \o v.id
    [] OTHER -> v.t

(***************************************************************************)
(* src/src/index.js, lines 15-35                                           *)
(***************************************************************************)
IsTextElement(v) == v.t \in {"string", "number"}

TopLevelNames == {"header", "content", "footer"}

IsTopLevelElement(elementName) ==
  elementName.t = "string" /\ elementName.s \in TopLevelNames

\* Object.assign(context, overrides) on the context object at address ref.
UpdateContext(h, ref, overrides) == [h EXCEPT ![ref] = Spread(h[ref], overrides)]

\* A variant that hands out the parent's own object instead of a copy.
CreateContextShared(h, parentContext) ==
  [heap |-> h, ref |-> parentContext]

\* { ...parentContext }: a new object, returned with the grown heap.
CreateContext(h, parentContext) ==
  [heap |-> Append(h, h[parentContext]), ref |-> Len(h) + 1]

RECURSIVE FlattenDeep(_)
FlattenDeep(xs) ==
  IF xs = <<>> THEN <<>>
  ELSE LET x == Head(xs)
       IN  (IF x.t = "array" THEN FlattenDeep(x.a) ELSE <<x>>)
             \o FlattenDeep(Tail(xs))

\* lodash flatten: one level only.
RECURSIVE Flatten(_)
Flatten(xs) ==
  IF xs = <<>> THEN <<>>
  ELSE (IF Head(xs).t = "array" THEN Head(xs).a ELSE <<Head(xs)>>) \o Flatten(Tail(xs))

\* A variant that flattens the children one level only.
CreateElementShallow(elementName, attributes, children) ==
  Node(elementName,
       IF attributes = Null THEN NoAttributes ELSE attributes,
       Flatten(children))

CreateElement(elementName, attributes, children) ==
  Node(elementName,
       IF attributes = Null THEN NoAttributes ELSE attributes,
       FlattenDeep(children))

(***************************************************************************)
(* Errors, and the record threaded through a resolution: the context heap,  *)
(* the component invocations (log), the render-prop invocations (rp), the   *)
(* validateTag calls (visited), the finished child loops (accs) and the     *)
(* error thrown so far.                                                     *)
(***************************************************************************)
NoError == [name |-> "", message |-> ""]
Err(name, message) == [name |-> name, message |-> message]

ErrImmediate ==
  Err("Error", "<header>, <content> and <footer> elements can only appear as immediate descendents of the <document>")
ErrTopLevel(elementName) ==
  Err("Error", "The <document> element can only contain <header>, <content>, and <footer> elements but found "
               \o KeyOf(elementName))
ErrAsync == Err("TypeError", "Async components are not permitted in a synchronous context")
ErrDocument == Err("Error", "<document> can only appear as the root element")
ErrRoot(elementName) ==
  Err("Error", "The root element must resolve to a <document>, actually resolved to "
               \o KeyOf(elementName))
\* Reading a property of null or undefined.
ErrNilRead == Err("TypeError", "Cannot read properties of null or undefined")
ErrThrown == Err("Error", "thrown by a component")

Machine(h, l, r, v, a, e) ==
  [heap |-> h, log |-> l, rp |-> r, visited |-> v, accs |-> a, err |-> e]

\* What a resolver call on its own returned or threw, and what it did.
NotRun == [done |-> FALSE]
Outcome(r) ==
  [done |-> TRUE, val |-> r.val, err |-> r.m.err, heap |-> r.m.heap, log |-> r.m.log]

Failed(m) == m.err # NoError
Throw(m, e) == [m EXCEPT !.err = e]

\* `await v`
Await(v, m) ==
  IF v.t = "promise"
  THEN IF v.state = "fulfilled" THEN [val |-> v.value, m |-> m]
       ELSE [val |-> Undefined, m |-> Throw(m, v.value)]
  ELSE [val |-> v, m |-> m]

(***************************************************************************)
(* User code: what a component does when resolve() invokes it with          *)
(* ({...attributes, children}, context, updateContext.bind(null, context)). *)
(* It writes fn.update through the update function, then returns            *)
(*   value    : a fixed subtree                                             *)
(*   child    : attributes.children[0]      (Provider of the tests)         *)
(*   fragment : Fragment, src/src/index.js line 253                         *)
(*   ctx      : <text>{context[key]}</text> (MyContextualisedComponent)     *)
(*   throw    : throws                                                      *)
(* An async function returns a promise of that outcome.                     *)
(***************************************************************************)
ComponentReturn(fn, props, ctx) ==
  CASE fn.ret.k = "value" -> fn.ret.v
    [] fn.ret.k = "child" ->
         IF props.children.a = <<>> THEN Undefined ELSE props.children.a[1]
    [] fn.ret.k = "fragment" -> CreateElement(Str("stack"), Null, <<props.children>>)
    [] fn.ret.k = "ctx" -> CreateElement(Str("text"), Null, <<Get(ctx, fn.ret.key)>>)
    [] OTHER -> Undefined

AsPromise(v) == IF v.t = "promise" THEN v ELSE Fulfilled(v)

CallComponent(fn, node, ctxRef, path, m) ==
  LET props == Spread(node.attributes, [children |-> Arr(node.children)])
      seen == m.heap[ctxRef]
      m1 == [m EXCEPT
               !.log = Append(@, [path |-> path, id |-> fn.id, ctx |-> seen,
                                  update |-> fn.update]),
               !.heap = UpdateContext(m.heap, ctxRef, fn.update)]
      v == ComponentReturn(fn, props, seen)
  IN  IF fn.ret.k = "throw"
      THEN IF fn.async THEN [val |-> Rejected(ErrThrown), m |-> m1]
           ELSE [val |-> Undefined, m |-> Throw(m1, ErrThrown)]
      ELSE [val |-> IF fn.async THEN AsPromise(v) ELSE v, m |-> m1]

(***************************************************************************)
(* User code: a render prop called with (currentPage, pageCount, pageSize). *)
(*   page  : the columns of the header/footer tests                         *)
(*   value : a fixed subtree                                                *)
(***************************************************************************)
RenderPropReturn(fn, args) ==
  CASE fn.ret.k = "page" ->
         CreateElement(Str("columns"), Null,
           << CreateElement(Str("column"), [width |-> Str("*")],
                            <<Str("Page "), args[1], Str(" of "), args[2]>>),
              CreateElement(Str("column"), [width |-> Str("*")], <<args[3]>>) >>)
    [] fn.ret.k = "value" -> fn.ret.v
    [] OTHER -> Undefined

CallRenderProp(fn, args, m) ==
  [val |-> RenderPropReturn(fn, args),
   m |-> [m EXCEPT !.rp = Append(@, [id |-> fn.id, args |-> args])]]

(***************************************************************************)
(* src/src/index.js, lines 37-100                                          *)
(***************************************************************************)
RECURSIVE Resolve(_, _, _, _)
RECURSIVE ResolveAgain(_, _, _)

\* The loop test after one invocation returned r (or threw).
ResolveAgain(r, ctxRef, path) ==
  IF Failed(r.m) THEN r ELSE Resolve(r.val, ctxRef, path, r.m)

Resolve(t, ctxRef, path, m) ==
  IF Truthy(t) /\ ElementNameOf(t).t = "function"
  THEN ResolveAgain(CallComponent(t.elementName, t, ctxRef, path, m), ctxRef, path)
  ELSE [val |-> t, m |-> m]

UnwrapTextElements(elements) ==
  IF Len(elements) = 1 /\ IsTextElement(elements[1])
  THEN elements[1]
  ELSE Arr(elements)

\* A variant that drops only null and undefined.
ValidateTagNilOnly(rt, isTopLevel) ==
  IF IsNil(rt) THEN [val |-> Null, err |-> NoError]
  ELSE IF IsTextElement(rt) THEN [val |-> rt, err |-> NoError]
  ELSE LET elementName == ElementNameOf(rt)
       IN  IF ~isTopLevel /\ IsTopLevelElement(elementName)
           THEN [val |-> Undefined, err |-> ErrImmediate]
           ELSE IF isTopLevel /\ ~IsTopLevelElement(elementName)
           THEN [val |-> Undefined, err |-> ErrTopLevel(elementName)]
           ELSE [val |-> Undefined, err |-> NoError]

\* A variant that keeps the number 0 as text.
ValidateTagKeepZero(rt, isTopLevel) ==
  IF ~Truthy(rt) /\ rt # Num(0) THEN [val |-> Null, err |-> NoError]
  ELSE IF IsTextElement(rt) THEN [val |-> rt, err |-> NoError]
  ELSE LET elementName == ElementNameOf(rt)
       IN  IF ~isTopLevel /\ IsTopLevelElement(elementName)
           THEN [val |-> Undefined, err |-> ErrImmediate]
           ELSE IF isTopLevel /\ ~IsTopLevelElement(elementName)
           THEN [val |-> Undefined, err |-> ErrTopLevel(elementName)]
           ELSE [val |-> Undefined, err |-> NoError]

\* A variant without the nesting check of lines 69-73.
ValidateTagNoNesting(rt, isTopLevel) ==
  IF ~Truthy(rt) THEN [val |-> Null, err |-> NoError]
  ELSE IF IsTextElement(rt) THEN [val |-> rt, err |-> NoError]
  ELSE LET elementName == ElementNameOf(rt)
       IN  IF isTopLevel /\ ~IsTopLevelElement(elementName)
           THEN [val |-> Undefined, err |-> ErrTopLevel(elementName)]
           ELSE [val |-> Undefined, err |-> NoError]

\* A variant without the top-level check of lines 75-79.
ValidateTagNoTopLevel(rt, isTopLevel) ==
  IF ~Truthy(rt) THEN [val |-> Null, err |-> NoError]
  ELSE IF IsTextElement(rt) THEN [val |-> rt, err |-> NoError]
  ELSE LET elementName == ElementNameOf(rt)
       IN  IF ~isTopLevel /\ IsTopLevelElement(elementName)
           THEN [val |-> Undefined, err |-> ErrImmediate]
           ELSE [val |-> Undefined, err |-> NoError]

\* Returns null, the text primitive, or undefined ("go on"); or throws.
ValidateTag(rt, isTopLevel) ==
  IF ~Truthy(rt) THEN [val |-> Null, err |-> NoError]
  ELSE IF IsTextElement(rt) THEN [val |-> rt, err |-> NoError]
  ELSE LET elementName == ElementNameOf(rt)
       IN  IF ~isTopLevel /\ IsTopLevelElement(elementName)
           THEN [val |-> Undefined, err |-> ErrImmediate]
           ELSE IF isTopLevel /\ ~IsTopLevelElement(elementName)
           THEN [val |-> Undefined, err |-> ErrTopLevel(elementName)]
           ELSE [val |-> Undefined, err |-> NoError]

\* lodash last: undefined for an empty array.
Last(xs) == IF xs = <<>> THEN Undefined ELSE xs[Len(xs)]

\* A variant that adds two numbers instead of joining them.
AppendChildToChildrenAdding(resolvedChild, resolvedChildren) ==
  IF IsTextElement(Last(resolvedChildren)) /\ IsTextElement(resolvedChild)
  THEN [resolvedChildren EXCEPT ![Len(resolvedChildren)] =
          IF @.t = "number" /\ resolvedChild.t = "number"
          THEN Num(@.n + resolvedChild.n)
          ELSE Str(ToStr(@) \o ToStr(resolvedChild))]
  ELSE IF ~IsNil(resolvedChild)
  THEN Append(resolvedChildren, resolvedChild)
  ELSE resolvedChildren

\* A variant that coerces every text primitive it pushes to a string.
AppendChildToChildrenCoercing(resolvedChild, resolvedChildren) ==
  IF IsTextElement(Last(resolvedChildren)) /\ IsTextElement(resolvedChild)
  THEN [resolvedChildren EXCEPT ![Len(resolvedChildren)] =
          Str(ToStr(resolvedChildren[Len(resolvedChildren)]) \o ToStr(resolvedChild))]
  ELSE IF IsTextElement(resolvedChild)
  THEN Append(resolvedChildren, Str(ToStr(resolvedChild)))
  ELSE IF ~IsNil(resolvedChild)
  THEN Append(resolvedChildren, resolvedChild)
  ELSE resolvedChildren

AppendChildToChildren(resolvedChild, resolvedChildren) ==
  IF IsTextElement(Last(resolvedChildren)) /\ IsTextElement(resolvedChild)
  THEN [resolvedChildren EXCEPT ![Len(resolvedChildren)] =
          Str(ToStr(resolvedChildren[Len(resolvedChildren)]) \o ToStr(resolvedChild))]
  ELSE IF ~IsNil(resolvedChild)
  THEN Append(resolvedChildren, resolvedChild)
  ELSE resolvedChildren

(***************************************************************************)
(* src/src/index.js, lines 170-218                                         *)
(***************************************************************************)
StackNames == {"header", "content", "footer", "stack", "column", "cell"}

\* A variant that maps a document like an unrecognised kind.
CaseDocumentAbsent == [val |-> Null, err |-> NoError]

\* case 'document': throw new Error(...), lines 213-214
CaseDocument == [val |-> Undefined, err |-> ErrDocument]

ResolveIntrinsicChildren(rt, resolvedChildren) ==
  LET elementName == ElementNameOf(rt)
      attributes == AttributesOf(rt)
      name == IF elementName.t = "string" THEN elementName.s ELSE ""
      known == elementName.t = "string"
      ok(v) == [val |-> v, err |-> NoError]
  IN  CASE known /\ name \in StackNames ->
             ok(Obj(Spread([stack |-> Arr(resolvedChildren)], attributes)))
        [] known /\ name = "text" ->
             ok(Obj(Spread([text |-> UnwrapTextElements(resolvedChildren)], attributes)))
        [] known /\ name = "columns" ->
             ok(Obj(Spread([columns |-> Arr(resolvedChildren)], attributes)))
        [] known /\ name = "image" ->
             ok(Obj(Spread([image |-> Get(attributes, "src")], Omit(attributes, {"src"}))))
        [] known /\ name = "svg" ->
             ok(Obj(Spread([svg |-> Get(attributes, "content")], Omit(attributes, {"content"}))))
        [] known /\ name = "qr" ->
             ok(Obj(Spread([qr |-> Get(attributes, "content")], Omit(attributes, {"content"}))))
        [] known /\ name = "table" ->
             ok(Obj(Spread(
                  [table |-> Obj(Spread([body |-> Arr(resolvedChildren)],
                                        Pick(attributes, {"headerRows", "widths"})))],
                  Omit(attributes, {"headerRows", "widths"}))))
        [] known /\ name = "row" -> ok(Arr(resolvedChildren))
        [] known /\ name = "ul" ->
             ok(Obj(Spread([ul |-> Arr(resolvedChildren)], attributes)))
        [] known /\ name = "ol" ->
             ok(Obj(Spread([ol |-> Arr(resolvedChildren)], attributes)))
        [] known /\ name = "document" -> CaseDocument
        [] OTHER -> ok(Null)

\* What validateTag was called on: the kind, the position and the children.
Visit(rt, isTopLevel, path, sync) ==
  [path |-> path, isTopLevel |-> isTopLevel, sync |-> sync,
   text |-> IsTextElement(rt), falsy |-> ~Truthy(rt),
   elementName |-> ElementNameOf(rt),
   childTypes |-> [j \in 1..Len(ChildrenOf(rt)) |-> ChildrenOf(rt)[j].t]]

\* A finished child loop: the resolved children in order and the accumulator.
Acc(path, sync, vals, resolvedChildren) ==
  [path |-> path, sync |-> sync, vals |-> vals, resolvedChildren |-> resolvedChildren]

(***************************************************************************)
(* src/src/index.js, lines 105-132: resolveChildrenSync                    *)
(***************************************************************************)
\* A variant that never recognises a promise.
InstanceOfPromiseNever(v) == FALSE

\* resolvedTag instanceof Promise (line 108)
InstanceOfPromise(v) == v.t = "promise"

\* What a resolver returns once validateTag (v) has answered for the
\* resolved tag; `descend` is the resolver's own continuation.
Validated(v, m) ==
  IF v.err # NoError THEN [val |-> Undefined, m |-> Throw(m, v.err), descend |-> FALSE]
  ELSE IF v.val # Undefined THEN [val |-> v.val, m |-> m, descend |-> FALSE]
  ELSE [val |-> Undefined, m |-> m, descend |-> TRUE]

Visiting(m, rt, isTopLevel, path, sync) ==
  [m EXCEPT !.visited = Append(@, Visit(rt, isTopLevel, path, sync))]

\* return resolveIntrinsicChildren(resolvedTag, resolvedChildren), lines 131, 167
Mapped(out, m) ==
  [val |-> out.val, m |-> IF out.err # NoError THEN Throw(m, out.err) ELSE m]

Finished(rt, path, sync, vals, resolvedChildren, m) ==
  Mapped(ResolveIntrinsicChildren(rt, resolvedChildren),
         [m EXCEPT !.accs = Append(@, Acc(path, sync, vals, resolvedChildren))])

RECURSIVE ResolveChildrenSync(_, _, _, _, _)
RECURSIVE ResolveChildrenSyncLoop(_, _, _, _, _, _, _)
RECURSIVE SyncChild(_, _, _, _, _, _, _, _)
RECURSIVE SyncAppend(_, _, _, _, _, _, _)
RECURSIVE SyncResolved(_, _, _, _)
RECURSIVE SyncDescend(_, _, _, _)

\* lines 128-129: appendChildToChildren and the next iteration
SyncAppend(rt, j, parentContext, path, vals, resolvedChildren, r) ==
  IF Failed(r.m) THEN r
  ELSE ResolveChildrenSyncLoop(rt, j + 1, parentContext, path,
                               Append(vals, r.val),
                               AppendChildToChildren(r.val, resolvedChildren),
                               r.m)

\* A variant that resolves the child against the parent's own context.
SyncChildShared(rt, j, parentContext, path, vals, resolvedChildren, c, m) ==
  SyncAppend(rt, j, parentContext, path, vals, resolvedChildren,
             ResolveChildrenSync(ChildrenOf(rt)[j], parentContext, FALSE, Append(path, j), m))

\* lines 122-126: the recursive call with the context copy c
SyncChild(rt, j, parentContext, path, vals, resolvedChildren, c, m) ==
  SyncAppend(rt, j, parentContext, path, vals, resolvedChildren,
             ResolveChildrenSync(ChildrenOf(rt)[j], c.ref, FALSE, Append(path, j),
                                 [m EXCEPT !.heap = c.heap]))

\* lines 117-131: for (const child of children) ..., from child j on
ResolveChildrenSyncLoop(rt, j, parentContext, path, vals, resolvedChildren, m) ==
  IF j > Len(ChildrenOf(rt))
  THEN Finished(rt, path, TRUE, vals, resolvedChildren, m)
  ELSE SyncChild(rt, j, parentContext, path, vals, resolvedChildren,
                 CreateContext(m.heap, parentContext), m)

\* lines 115-117
SyncDescend(rt, v, parentContext, path) ==
  IF v.descend
  THEN ResolveChildrenSyncLoop(rt, 1, parentContext, path, <<>>, <<>>, v.m)
  ELSE [val |-> v.val, m |-> v.m]

\* lines 108-114, r is what resolve returned
SyncResolved(r, parentContext, isTopLevel, path) ==
  IF Failed(r.m) THEN r
  ELSE IF InstanceOfPromise(r.val)
  THEN [val |-> Undefined, m |-> Throw(r.m, ErrAsync)]
  ELSE SyncDescend(r.val,
                   Validated(ValidateTag(r.val, isTopLevel),
                             Visiting(r.m, r.val, isTopLevel, path, TRUE)),
                   parentContext, path)

ResolveChildrenSync(t, parentContext, isTopLevel, path, m) ==
  SyncResolved(Resolve(t, parentContext, path, m), parentContext, isTopLevel, path)

(***************************************************************************)
(* src/src/index.js, lines 134-168: resolveChildren                        *)
(***************************************************************************)
\* The arrow function of lines 147-152; it closes over children[0],
\* attributes and the parentContext object (by reference).
Callable(fn, attributes, parentContext, path) ==
  [t |-> "function", id |-> "callable", fn |-> fn, attributes |-> attributes,
   parentContext |-> parentContext, path |-> path]

IsCallable(v) == v.t = "function" /\ v.id = "callable"

RenderPropCapable == {"header", "footer"}

\* A variant that does not require the function to be the only child.
IsRenderPropAnyLength(elementName, children) ==
  /\ elementName.t = "string"
  /\ elementName.s \in RenderPropCapable
  /\ Len(children) >= 1
  /\ children[1].t = "function"

\* The test of lines 142-146.
IsRenderProp(elementName, children) ==
  /\ elementName.t = "string"
  /\ elementName.s \in RenderPropCapable
  /\ Len(children) = 1
  /\ children[1].t = "function"

RECURSIVE ResolveChildren(_, _, _, _, _)
RECURSIVE ResolveChildrenLoop(_, _, _, _, _, _, _)
RECURSIVE AsyncAwaited(_, _, _, _, _, _, _)
RECURSIVE AsyncChild(_, _, _, _, _, _, _, _)
RECURSIVE AsyncAppend(_, _, _, _, _, _, _)
RECURSIVE AsyncResolved(_, _, _, _)
RECURSIVE AsyncDescend(_, _, _, _)

\* line 164: appendChildToChildren and the next iteration
AsyncAppend(rt, j, parentContext, path, vals, resolvedChildren, r) ==
  IF Failed(r.m) THEN r
  ELSE ResolveChildrenLoop(rt, j + 1, parentContext, path,
                           Append(vals, r.val),
                           AppendChildToChildren(r.val, resolvedChildren),
                           r.m)

\* lines 158-162: the recursive call on the awaited child a.val with the
\* context copy c
AsyncChild(rt, j, parentContext, path, vals, resolvedChildren, a, c) ==
  AsyncAppend(rt, j, parentContext, path, vals, resolvedChildren,
              ResolveChildren(a.val, c.ref, FALSE, Append(path, j),
                              [a.m EXCEPT !.heap = c.heap]))

\* line 159: a is the awaited child
AsyncAwaited(rt, j, parentContext, path, vals, resolvedChildren, a) ==
  IF Failed(a.m) THEN a
  ELSE AsyncChild(rt, j, parentContext, path, vals, resolvedChildren, a,
                  CreateContext(a.m.heap, parentContext))

\* lines 155-167: for (const child of children) ..., from child j on
ResolveChildrenLoop(rt, j, parentContext, path, vals, resolvedChildren, m) ==
  IF j > Len(ChildrenOf(rt))
  THEN Finished(rt, path, FALSE, vals, resolvedChildren, m)
  ELSE AsyncAwaited(rt, j, parentContext, path, vals, resolvedChildren,
                    Await(ChildrenOf(rt)[j], m))

Reverse(xs) == [j \in DOMAIN xs |-> xs[Len(xs) + 1 - j]]

\* A variant that goes through the children from the last to the first.
AsyncDescendReversed(rt, v, parentContext, path) ==
  IF ~v.descend THEN [val |-> v.val, m |-> v.m]
  ELSE IF IsRenderProp(ElementNameOf(rt), ChildrenOf(rt))
  THEN [val |-> Callable(ChildrenOf(rt)[1], AttributesOf(rt), parentContext, path),
        m |-> v.m]
  ELSE ResolveChildrenLoop([rt EXCEPT !.children = Reverse(@)], 1, parentContext,
                           path, <<>>, <<>>, v.m)

\* lines 138-155
AsyncDescend(rt, v, parentContext, path) ==
  IF ~v.descend THEN [val |-> v.val, m |-> v.m]
  ELSE IF IsRenderProp(ElementNameOf(rt), ChildrenOf(rt))
  THEN [val |-> Callable(ChildrenOf(rt)[1], AttributesOf(rt), parentContext, path),
        m |-> v.m]
  ELSE ResolveChildrenLoop(rt, 1, parentContext, path, <<>>, <<>>, v.m)

\* lines 135-137, r is the awaited result of resolve
AsyncResolved(r, parentContext, isTopLevel, path) ==
  IF Failed(r.m) THEN r
  ELSE AsyncDescend(r.val,
                    Validated(ValidateTag(r.val, isTopLevel),
                              Visiting(r.m, r.val, isTopLevel, path, FALSE)),
                    parentContext, path)

\* await of what a resolver step returned (or threw)
Awaited(r) == IF Failed(r.m) THEN r ELSE Await(r.val, r.m)

ResolveChildren(t, parentContext, isTopLevel, path, m) ==
  AsyncResolved(Awaited(Resolve(t, parentContext, path, m)),
                parentContext, isTopLevel, path)

\* The shape returned by the arrow function of lines 147-152.
CallableShape(resolved, attributes) ==
  Obj(Spread([stack |-> Arr(<<resolved>>)], attributes))

\* A variant that swaps the first two arguments.
SpreadArgsSwapped(args) == <<args[2], args[1], args[3]>>

\* The order in which the callable hands its arguments to children[0].
SpreadArgs(args) == <<args[1], args[2], args[3]>>

\* { stack: [r.val], ...attributes } unless the synchronous resolver threw
Shaped(r, attributes) ==
  IF Failed(r.m) THEN r
  ELSE [val |-> CallableShape(r.val, attributes), m |-> r.m]

\* line 149: p is what children[0](...args) returned, c the context copy
InvokeResolve(f, p, c) ==
  Shaped(ResolveChildrenSync(p.val, c.ref, FALSE, Append(f.path, 1),
                             [p.m EXCEPT !.heap = c.heap]),
         f.attributes)

InvokeReturned(f, p) == InvokeResolve(f, p, CreateContext(p.m.heap, f.parentContext))

\* Invoking the callable of lines 147-152 with (...args).
InvokeCallable(f, args, m) ==
  InvokeReturned(f, CallRenderProp(f.fn, SpreadArgs(args), m))

(***************************************************************************)
(* src/src/index.js, lines 224-251: renderPdf                              *)
(***************************************************************************)
\* lines 227-233: r is the awaited result of resolve
RootChecked(r) ==
  IF Failed(r.m) THEN r
  ELSE IF IsNil(r.val) THEN [val |-> r.val, m |-> Throw(r.m, ErrNilRead)]
  ELSE IF ElementNameOf(r.val) # Str("document")
  THEN [val |-> r.val, m |-> Throw(r.m, ErrRoot(ElementNameOf(r.val)))]
  ELSE r

\* lines 225-233
RenderPdfRoot(t, ctxRef, m) ==
  RootChecked(Awaited(Resolve(t, ctxRef, <<>>, m)))

\* The key and the value assigned into result, or the error thrown.
Keyed(key, s) == [key |-> key, val |-> s.val, m |-> s.m]

\* lines 240-244: r is the awaited resolvedChild
ChildResolved(r, i, ctxRef) ==
  IF Failed(r.m) THEN Keyed("", r)
  ELSE IF IsNil(r.val) THEN Keyed("", [val |-> Undefined, m |-> Throw(r.m, ErrNilRead)])
  ELSE Keyed(KeyOf(ElementNameOf(r.val)),
             ResolveChildren(r.val, ctxRef, TRUE, <<i>>, r.m))

\* line 239: a is the awaited child
ChildAwaited(a, i, ctxRef) ==
  IF Failed(a.m) THEN Keyed("", a)
  ELSE ChildResolved(Awaited(Resolve(a.val, ctxRef, <<i>>, a.m)), i, ctxRef)

\* lines 239-244: one iteration of the loop over the document's children.
RenderPdfChild(child, i, ctxRef, m) == ChildAwaited(Await(child, m), i, ctxRef)

\* result[key] = value
Assign(res, key, val) == Spread(res, key :> val)

\* A variant in which the sections win over the attributes.
RenderPdfReturnSectionsWin(res, attributes) == Spread(attributes, res)

\* lines 247-250
RenderPdfReturn(res, attributes) == Spread(res, attributes)

\* renderPdf run from start to end: the loop of lines 238-245 from child i on.
RECURSIVE RenderPdfLoop(_, _, _, _, _)
RECURSIVE RenderPdfNext(_, _, _, _, _)

RenderPdfNext(rt, i, ctxRef, res, r) ==
  IF Failed(r.m)
  THEN [status |-> "rejected", output |-> NoAttributes, m |-> r.m]
  ELSE RenderPdfLoop(rt, i + 1, ctxRef, Assign(res, r.key, r.val), r.m)

RenderPdfLoop(rt, i, ctxRef, res, m) ==
  IF i > Len(ChildrenOf(rt))
  THEN [status |-> "done", output |-> RenderPdfReturn(res, AttributesOf(rt)), m |-> m]
  ELSE RenderPdfNext(rt, i, ctxRef, res,
                     RenderPdfChild(ChildrenOf(rt)[i], i, ctxRef, m))

RenderPdfFrom(r) ==
  IF Failed(r.m)
  THEN [status |-> "rejected", output |-> NoAttributes, m |-> r.m]
  ELSE RenderPdfLoop(r.val, 1, 1, NoAttributes, r.m)

RenderPdf(t) ==
  RenderPdfFrom(RenderPdfRoot(t, 1, Machine(<<NoAttributes>>, <<>>, <<>>, <<>>, <<>>, NoError)))

(***************************************************************************)
(* Inputs: the trees handed to renderPdf.                                   *)
(***************************************************************************)
SeqsUpTo(S, n) == UNION {[1..k -> S] : k \in 0..n}

El(name, children) == CreateElement(Str(name), Null, children)
Document(children) == El("document", children)

\* Components of the tests (src/unnamed/part_000).
Returning(id, async, v) == Fn(id, async, NoAttributes, [k |-> "value", v |-> v])
Use(fn, children) == CreateElement(fn, Null, children)

\* Family 1: a child sequence of text and falsy values, or of text and one
\* component that returns such a value, directly in a section or inside a
\* <text>.
TextLeaves == { Str("a"), Num(12) }

FalsyLeaves ==
  { {Num(0), Bool(FALSE), Null}, {Str(""), Undefined, NaN} }

LeafComponents ==
  { Use(Returning("Name", FALSE, Str("b")), <<>>),
    Use(Returning("Zero", FALSE, Num(0)), <<>>),
    Use(Returning("Null", FALSE, Null), <<>>),
    Use(Returning("AsyncThree", TRUE, Num(3)), <<>>),
    Use(Returning("AsyncEmpty", TRUE, Str("")), <<>>) }

TextChildren ==
  UNION { SeqsUpTo(TextLeaves \cup F, MaxChildren) : F \in FalsyLeaves }
    \cup
  UNION { SeqsUpTo(TextLeaves \cup {El("text", <<Str("t")>>), c}, MaxChildren) :
            c \in LeafComponents }

TextInputs ==
  { Document(<<El("content", cs)>>) : cs \in TextChildren }
    \cup
  { Document(<<El("content", <<El("text", cs)>>)>>) : cs \in TextChildren }

\* Family 2: components that write and read the context key "mytest"
\* (Provider, MyContextualisedComponent, MyParentComponent of the tests).
Reader == Fn("Reader", FALSE, NoAttributes, [k |-> "ctx", key |-> "mytest"])
Provider(id, async) == Fn(id, async, [mytest |-> Str(id)], [k |-> "child"])
Writer(id) ==
  Fn(id, FALSE, [mytest |-> Str(id)], [k |-> "value", v |-> El("text", <<Str("first")>>)])
Parent == Returning("Parent", FALSE, Use(Reader, <<>>))
ReaderProp == Returning("readerProp", FALSE, Use(Reader, <<>>))

ContextLeaves ==
  { Use(Reader, <<>>),
    Use(Provider("P1", FALSE), <<Use(Reader, <<>>)>>),
    Use(Writer("W1"), <<>>),
    El("stack", <<Use(Writer("W2"), <<>>), Use(Reader, <<>>)>>),
    Use(Provider("P2", TRUE), <<El("stack", <<Use(Parent, <<>>)>>)>>) }

FirstSections(n) ==
  LET plain == { El("content", cs) : cs \in SeqsUpTo(ContextLeaves, n) }
  IN  plain
        \cup { Use(Provider("T1", FALSE), <<sec>>) : sec \in plain }
        \cup { Use(Provider("T1a", TRUE), <<sec>>) : sec \in plain }

\* The sections before and after the first one: none, a footer that reads ...
ReadingSections ==
  { << <<>>, <<>> >>,
    << <<>>, <<El("footer", <<Use(Reader, <<>>)>>)>> >>,
    << <<>>, <<Use(Provider("T2", FALSE), <<El("footer", <<Use(Reader, <<>>)>>)>>)>> >> }

\* ... or a header whose render prop reads.
CallableSections ==
  { << <<>>, <<El("header", <<ReaderProp>>)>> >>,
    << <<El("header", <<ReaderProp>>)>>, <<>> >> }

ContextInputs ==
  LET docs == { Document(o[1] \o <<sec>> \o o[2]) :
                  sec \in FirstSections(MaxContextChildren), o \in ReadingSections }
                \cup
              { Document(o[1] \o <<sec>> \o o[2]) :
                  sec \in FirstSections(1), o \in CallableSections }
  IN  docs \cup { Use(Provider("R", FALSE), <<d>>) : d \in docs }

\* Family 3: sections with function children (render props).
AnotherAsync == Returning("AnotherAsync", TRUE, El("text", <<Str("hello")>>))

RenderProps ==
  { Fn("pageOf", FALSE, NoAttributes, [k |-> "page"]),
    Returning("plain", FALSE, Str("plain")),
    Returning("nothing", FALSE, Null),
    Returning("async", FALSE, Use(AnotherAsync, <<>>)),
    Returning("deepAsync", FALSE,
              El("stack", <<Str("x"), El("text", <<Use(AnotherAsync, <<>>)>>)>>)),
    Returning("pending", FALSE, El("stack", <<Fulfilled(Str("p"))>>)),
    Returning("nestedHeader", FALSE, El("stack", <<El("header", <<>>)>>)),
    Returning("nestedDocument", FALSE, El("stack", <<El("document", <<>>)>>)),
    Returning("headerThenAsync", FALSE,
              El("stack", <<El("header", <<>>), Use(AnotherAsync, <<>>)>>)),
    Returning("context", FALSE,
              El("stack", <<Use(Reader, <<>>),
                            Use(Provider("PW", FALSE), <<Use(Reader, <<>>)>>)>>)) }

RenderPropChildren(f) ==
  { <<f>>, <<f, Str("x")>>, <<Null, f>>, <<Str("x")>> }

RenderPropSections ==
  { CreateElement(Str(name), attributes, cs) :
      name \in TopLevelNames,
      attributes \in {Null, [margin |-> Num(5)]},
      cs \in UNION { RenderPropChildren(f) : f \in RenderProps } }

RenderPropInputs ==
  { Document(<<sec>>) : sec \in RenderPropSections }
    \cup { Document(<<Use(Returning("Sync", FALSE, sec), <<>>)>>) :
             sec \in RenderPropSections }
    \cup { Document(<<Use(Returning("Async", TRUE, sec), <<>>)>>) :
             sec \in RenderPropSections }

\* Family 4: kinds at the wrong place.
PlacedKinds ==
  { El("header", <<>>), El("content", <<Str("x")>>), El("footer", <<>>),
    El("document", <<>>), El("text", <<Str("x")>>), El("stack", <<>>),
    El("document", <<El("text", <<Str("x")>>)>>),
    El("document", <<El("content", <<Str("x")>>)>>) }

Wrappings(inner) ==
  { inner,
    El("stack", <<inner>>),
    El("stack", <<El("columns", <<inner>>)>>),
    Use(Returning("Nested", FALSE, inner), <<>>),
    Use(Returning("AsyncNested", TRUE, inner), <<>>),
    Use(Returning("AsyncOuter", TRUE, Use(Returning("Nested", FALSE, inner), <<>>)), <<>>) }

Placed == UNION { Wrappings(inner) : inner \in PlacedKinds }

PlacementInputs ==
  Placed
    \cup { Document(<<p>>) : p \in Placed }
    \cup { Document(<<El("content", <<Str("x")>>), p>>) : p \in Placed }
    \cup { Document(<<El(name, <<p>>)>>) : name \in {"content", "header"}, p \in Placed }
    \cup { Document(<<El("content", <<Str("x"), p>>)>>) : p \in Placed }

\* Family 5: roots that resolve to a text primitive or to nothing.
RootValues == { Null, Undefined, Str("x"), Num(0) }

RootInputs ==
  RootValues
    \cup { Use(Returning("Root", FALSE, v), <<>>) : v \in RootValues }
    \cup { Use(Returning("AsyncRoot", TRUE, v), <<>>) : v \in RootValues }

\* Family 6: documents with attributes of their own, some named like a
\* section, over sections and a text primitive.
DocumentAttributes ==
  { [pageSize |-> Str("A4")],
    [info |-> Obj([title |-> Str("foo")]), pageMargins |-> Num(10)],
    [content |-> Str("mine")],
    [footer |-> Null, pageSize |-> Str("A4")] }

SectionLeaves ==
  { El("content", <<Str("x")>>), El("footer", <<Str("y")>>), Str("x") }

AttributeInputs ==
  LET docs == { CreateElement(Str("document"), a, cs) :
                  a \in DocumentAttributes, cs \in SeqsUpTo(SectionLeaves, MaxSections) }
  IN  docs \cup { Use(Returning("Doc", FALSE, doc), <<>>) : doc \in docs }

\* Family 7: something that raises an error between a component that comes
\* before it and components that come after it in traversal order: a
\* component that throws, an async component that rejects, a child that is a
\* rejected promise, a misplaced header, and a document whose own child is a
\* component.
ErrRejected == Err("Error", "rejected promise")

Throwers ==
  { Fn("Throws", FALSE, NoAttributes, [k |-> "throw"]),
    Fn("AsyncThrows", TRUE, NoAttributes, [k |-> "throw"]) }

Early == Use(Returning("Early", TRUE, Str("early")), <<>>)
Late == Use(Returning("Late", TRUE, Str("late")), <<>>)

Faults ==
  { Use(t, <<>>) : t \in Throwers }
    \cup { Rejected(ErrRejected),
           El("header", <<>>),
           El("document", <<Use(Returning("Inner", FALSE, Str("inner")), <<>>)>>) }

FaultInputs ==
  { Use(t, <<Document(<<El("content", <<Late>>)>>)>>) : t \in Throwers }
    \cup { Document(<<El("content", <<Early, f, Late>>)>>) : f \in Faults }
    \cup { Document(<<El("header", <<Early>>),
                      El("content", <<El("stack", <<f>>), Late>>),
                      El("footer", <<Late>>)>>) : f \in Faults }
    \cup { Document(<<El("content", <<Early>>), f, El("footer", <<Late>>)>>) :
             f \in Faults }
    \cup { Document(<<El("content", <<f, g>>)>>) : f, g \in Faults }

Inputs ==
  TextInputs \cup ContextInputs \cup RenderPropInputs \cup PlacementInputs
    \cup RootInputs \cup AttributeInputs \cup FaultInputs

(***************************************************************************)
(* The state machine: renderPdf, then invocations of the callables it      *)
(* returned.                                                                *)
(***************************************************************************)
Current == Machine(heap, log, rp, visited, accs, NoError)

Init ==
  /\ tag \in Inputs
  /\ pc = "start"
  /\ heap = <<>>
  /\ context = 0
  /\ resolvedTag = Undefined
  /\ idx = 1
  /\ result = NoAttributes
  /\ assigned = <<>>
  /\ log = <<>>
  /\ rp = <<>>
  /\ visited = <<>>
  /\ accs = <<>>
  /\ error = NoError
  /\ output = NoAttributes
  /\ calls = <<>>
  /\ createArgs = Undefined
  /\ element = Undefined
  /\ branch = Undefined
  /\ syncResult = NotRun
  /\ asyncResult = NotRun

\* The resolution state after a step of renderPdf.
Stepped(m) ==
  /\ heap' = m.heap
  /\ log' = m.log
  /\ rp' = m.rp
  /\ visited' = m.visited
  /\ accs' = m.accs
  /\ error' = m.err

RootDone(r) ==
  /\ Stepped(r.m)
  /\ resolvedTag' = r.val
  /\ pc' = IF Failed(r.m) THEN "rejected" ELSE "loop"

\* lines 225-236: the context is created and the root is resolved.
Root ==
  /\ pc = "start"
  /\ context' = Len(heap) + 1
  /\ RootDone(RenderPdfRoot(tag, Len(heap) + 1,
                            [Current EXCEPT !.heap = Append(heap, NoAttributes)]))
  /\ UNCHANGED <<tag, idx, result, assigned, output, calls, createArgs, element,
                 branch, syncResult, asyncResult>>

\* A variant that goes on with the next child after an error.
ChildDoneContinuing(r) ==
  /\ Stepped(r.m)
  /\ pc' = "loop"
  /\ idx' = idx + 1
  /\ IF Failed(r.m)
     THEN UNCHANGED <<result, assigned>>
     ELSE /\ result' = Assign(result, r.key, r.val)
          /\ assigned' = Append(assigned, [key |-> r.key, val |-> r.val])

ChildDone(r) ==
  /\ Stepped(r.m)
  /\ IF Failed(r.m)
     THEN /\ pc' = "rejected"
          /\ UNCHANGED <<idx, result, assigned>>
     ELSE /\ pc' = "loop"
          /\ idx' = idx + 1
          /\ result' = Assign(result, r.key, r.val)
          /\ assigned' = Append(assigned, [key |-> r.key, val |-> r.val])

\* lines 238-245: one iteration of the loop over the document's children.
Child ==
  /\ pc = "loop"
  /\ idx <= Len(ChildrenOf(resolvedTag))
  /\ ChildDone(RenderPdfChild(ChildrenOf(resolvedTag)[idx], idx, context, Current))
  /\ UNCHANGED <<tag, context, resolvedTag, output, calls, createArgs, element,
                 branch, syncResult, asyncResult>>

\* lines 247-250
Return ==
  /\ pc = "loop"
  /\ idx > Len(ChildrenOf(resolvedTag))
  /\ output' = RenderPdfReturn(result, AttributesOf(resolvedTag))
  /\ pc' = "done"
  /\ UNCHANGED <<tag, heap, context, resolvedTag, idx, result, assigned,
                 log, rp, visited, accs, error, calls, createArgs, element,
                 branch, syncResult, asyncResult>>

PageSizes == {Obj([width |-> Num(1080)])}

Invoked(key, args, r) ==
  /\ heap' = r.m.heap
  /\ calls' = Append(calls,
       [key |-> key, args |-> args, val |-> r.val, err |-> r.m.err,
        log |-> r.m.log, rp |-> r.m.rp, visited |-> r.m.visited,
        accs |-> r.m.accs])

InvokeWith(key, args) ==
  Invoked(key, args,
          InvokeCallable(output[key], args,
                         Machine(heap, <<>>, <<>>, <<>>, <<>>, NoError)))

\* The renderer calls a header/footer callable with
\* (currentPage, pageCount, pageSize).
Invoke ==
  /\ pc = "done"
  /\ Len(calls) < MaxCalls
  /\ \E key \in DOMAIN output, pageCount \in 1..MaxPage, pageSize \in PageSizes :
     \E currentPage \in 1..pageCount :
       /\ IsCallable(output[key])
       /\ InvokeWith(key, <<Num(currentPage), Num(pageCount), pageSize>>)
  /\ UNCHANGED <<tag, pc, context, resolvedTag, idx, result, assigned,
                 log, rp, visited, accs, error, output, createArgs, element,
                 branch, syncResult, asyncResult>>

Next == Root \/ Child \/ Return \/ Invoke

Spec == Init /\ [][Next]_vars

(***************************************************************************)
(* createElement on its own: calls with nested child groupings.             *)
(***************************************************************************)
GroupLeaves == { Str("a"), Num(1), Null }

\* The groupings nested up to d deep.
RECURSIVE Groupings(_)
Groupings(d) ==
  IF d = 0 THEN GroupLeaves
  ELSE LET G == Groupings(d - 1)
       IN  GroupLeaves
             \cup { Arr(<<>>) }
             \cup { Arr(<<g>>) : g \in G }
             \cup { Arr(<<g, l>>) : g \in G, l \in GroupLeaves }
             \cup { Arr(<<l, g>>) : g \in G, l \in GroupLeaves }

CreateCalls ==
  LET G == Groupings(MaxDepth)
  IN  [ elementName : { Str("stack"), Returning("Component", FALSE, Null) },
        attributes : { Null, [margin |-> Num(5)] },
        children : { <<>> } \cup { <<g>> : g \in G }
                     \cup { <<g, l>> : g \in G, l \in GroupLeaves }
                     \cup { <<l, g>> : g \in G, l \in GroupLeaves } ]

CreateInit ==
  /\ createArgs \in CreateCalls
  /\ element = Undefined
  /\ branch = Undefined
  /\ syncResult = NotRun
  /\ asyncResult = NotRun
  /\ pc = "create"
  /\ tag = Undefined
  /\ heap = <<>>
  /\ context = 0
  /\ resolvedTag = Undefined
  /\ idx = 1
  /\ result = NoAttributes
  /\ assigned = <<>>
  /\ log = <<>>
  /\ rp = <<>>
  /\ visited = <<>>
  /\ accs = <<>>
  /\ error = NoError
  /\ output = NoAttributes
  /\ calls = <<>>

\* createElement(elementName, attributes, ...children)
Create ==
  /\ pc = "create"
  /\ element' = CreateElement(createArgs.elementName, createArgs.attributes, createArgs.children)
  /\ pc' = "created"
  /\ UNCHANGED <<tag, heap, context, resolvedTag, idx, result, assigned,
                 log, rp, visited, accs, error, output, calls, createArgs,
                 branch, syncResult, asyncResult>>

CreateNext == Create

CreateSpec == CreateInit /\ [][CreateNext]_vars

(***************************************************************************)
(* The two child resolvers on their own: a subtree below the top level,     *)
(* resolved by each under the same parent context.                          *)
(***************************************************************************)
MapperTrees ==
  { CreateElement(Str("table"), [headerRows |-> Num(1), margin |-> Num(5)],
      <<El("row", <<El("cell", <<Str("x")>>), El("cell", <<Use(Reader, <<>>)>>)>>)>>),
    CreateElement(Str("image"), [src |-> Str("/a.png"), width |-> Num(5)], <<>>),
    El("ul", <<Str("x"), El("text", <<Num(12), Num(0)>>)>>),
    El("unknown", <<Use(Writer("W1"), <<>>)>>),
    El("stack", <<Fulfilled(El("text", <<Str("p")>>))>>),
    El("stack", <<Fn("pageOf", FALSE, NoAttributes, [k |-> "page"])>>),
    El("header", <<Fn("pageOf", FALSE, NoAttributes, [k |-> "page"])>>),
    Use(Fn("Throws", FALSE, NoAttributes, [k |-> "throw"]), <<>>),
    Use(Fn("Fragment", FALSE, NoAttributes, [k |-> "fragment"]),
        <<Str("a"), Num(1), Use(Reader, <<>>)>>) }

ResolverTrees ==
  Placed
    \cup MapperTrees
    \cup { El("stack", cs) : cs \in SeqsUpTo(ContextLeaves, MaxContextChildren) }
    \cup { El("text", cs) :
             cs \in UNION { SeqsUpTo(TextLeaves \cup F, MaxSections) : F \in FalsyLeaves } }
    \cup { El("columns", <<c, Str("a")>>) : c \in LeafComponents }
    \cup { f.ret.v : f \in { g \in RenderProps : g.ret.k = "value" } }

ParentContexts == { NoAttributes, [mytest |-> Str("outer")] }

ResolverInit ==
  /\ branch \in [tag : ResolverTrees, parentContext : ParentContexts]
  /\ syncResult = NotRun
  /\ asyncResult = NotRun
  /\ pc = "resolve"
  /\ tag = Undefined
  /\ heap = <<>>
  /\ context = 0
  /\ resolvedTag = Undefined
  /\ idx = 1
  /\ result = NoAttributes
  /\ assigned = <<>>
  /\ log = <<>>
  /\ rp = <<>>
  /\ visited = <<>>
  /\ accs = <<>>
  /\ error = NoError
  /\ output = NoAttributes
  /\ calls = <<>>
  /\ createArgs = Undefined
  /\ element = Undefined

BranchMachine == Machine(<<branch.parentContext>>, <<>>, <<>>, <<>>, <<>>, NoError)

\* resolveChildrenSync(tag, parentContext, false)
RunSync ==
  /\ pc = "resolve"
  /\ ~syncResult.done
  /\ syncResult' = Outcome(ResolveChildrenSync(branch.tag, 1, FALSE, <<>>, BranchMachine))
  /\ UNCHANGED <<tag, pc, heap, context, resolvedTag, idx, result, assigned,
                 log, rp, visited, accs, error, output, calls, createArgs, element,
                 branch, asyncResult>>

\* await resolveChildren(tag, parentContext, false)
RunAsync ==
  /\ pc = "resolve"
  /\ ~asyncResult.done
  /\ asyncResult' = Outcome(ResolveChildren(branch.tag, 1, FALSE, <<>>, BranchMachine))
  /\ UNCHANGED <<tag, pc, heap, context, resolvedTag, idx, result, assigned,
                 log, rp, visited, accs, error, output, calls, createArgs, element,
                 branch, syncResult>>

ResolverNext == RunSync \/ RunAsync

ResolverSpec == ResolverInit /\ [][ResolverNext]_vars

(***************************************************************************)
(* Properties.                                                              *)
(***************************************************************************)
IsPrefix(p, q) == Len(p) <= Len(q) /\ SubSeq(q, 1, Len(p)) = p

Range(xs) == { xs[i] : i \in DOMAIN xs }

\* Every finished child loop: of renderPdf and of the callable invocations.
AccRecords == Range(accs) \cup UNION { Range(calls[c].accs) : c \in DOMAIN calls }

RECURSIVE JoinText(_)
JoinText(xs) == IF xs = <<>> THEN "" ELSE ToStr(Head(xs)) \o JoinText(Tail(xs))

\* The number of text primitives xs starts with.
TextPrefixLen(xs) ==
  CHOOSE k \in 0..Len(xs) :
    /\ \A i \in 1..k : IsTextElement(xs[i])
    /\ k = Len(xs) \/ ~IsTextElement(xs[k + 1])

\* Every maximal run of two or more text primitives becomes its concatenation.
RECURSIVE Coalesced(_)
Coalesced(xs) ==
  IF xs = <<>> THEN <<>>
  ELSE LET k == TextPrefixLen(xs)
       IN  IF k <= 1 THEN <<Head(xs)>> \o Coalesced(Tail(xs))
           ELSE <<Str(JoinText(SubSeq(xs, 1, k)))>>
                  \o Coalesced(SubSeq(xs, k + 1, Len(xs)))

Present(xs) == SelectSeq(xs, LAMBDA v : ~IsNil(v))

\* C1: for every concrete node, every run of two or more adjacent children
\* that resolve to text primitives is one entry of the parent's resolved
\* children, the ordered string concatenation of the run (12 then 3 gives
\* "123", never 15 and never two entries).
C1_TextRunsConcatenate ==
  \A r \in AccRecords :
    /\ r.resolvedChildren = Coalesced(Present(r.vals))
    /\ r.vals = <<Num(12), Num(3)>> => r.resolvedChildren = <<Str("123")>>

C1_Witness ==
  \E r \in AccRecords :
    /\ r.vals = <<Num(12), Num(3)>>
    /\ r.resolvedChildren = <<Str("123")>>

(***************************************************************************)
(* Falsy children.                                                          *)
(***************************************************************************)
IsConcrete(v) == v.t = "node" /\ v.elementName.t = "string"

\* A falsy value, or a function-kind child that just returns one.
ProducesFalsy(c) ==
  \/ ~Truthy(c)
  \/ /\ c.t = "node"
     /\ c.elementName.t = "function"
     /\ c.elementName.ret.k = "value"
     /\ ~Truthy(c.elementName.ret.v)

RemoveAt(xs, i) == SubSeq(xs, 1, i - 1) \o SubSeq(xs, i + 1, Len(xs))

\* The children of the concrete node at path p of a document (p has one or
\* two elements), and the document with the node's children replaced.
ChildrenAt(t, p) ==
  IF Len(p) = 1 THEN t.children[p[1]].children
  ELSE t.children[p[1]].children[p[2]].children

KindAt(t, p) ==
  IF Len(p) = 1 THEN t.children[p[1]].elementName
  ELSE t.children[p[1]].children[p[2]].elementName

WithChildrenAt(t, p, cs) ==
  IF Len(p) = 1 THEN [t EXCEPT !.children[p[1]].children = cs]
  ELSE [t EXCEPT !.children[p[1]].children[p[2]].children = cs]

\* The concrete nodes of a document: the sections and their children.
ConcretePaths(t) ==
  IF ~(IsConcrete(t) /\ t.elementName = Str("document")) THEN {}
  ELSE LET secs == { s \in DOMAIN t.children : IsConcrete(t.children[s]) }
       IN  { <<s>> : s \in secs }
             \cup UNION { { <<s, i>> : i \in { j \in DOMAIN t.children[s].children :
                                                 IsConcrete(t.children[s].children[j]) } } :
                          s \in secs }

\* The falsy children of concrete nodes whose removal leaves a parent that
\* still goes through the child loop (is not a lone render prop).
FalsyPositions(t) ==
  { q \in UNION { { <<p, i>> : i \in DOMAIN ChildrenAt(t, p) } : p \in ConcretePaths(t) } :
      /\ ProducesFalsy(ChildrenAt(t, q[1])[q[2]])
      /\ ~IsRenderProp(KindAt(t, q[1]), RemoveAt(ChildrenAt(t, q[1]), q[2])) }

WithoutChild(t, q) == WithChildrenAt(t, q[1], RemoveAt(ChildrenAt(t, q[1]), q[2]))

IsTextChild(c) ==
  \/ c.t = "string"
  \/ c.t = "number" /\ ~c.nan
  \/ /\ c.t = "node"
     /\ c.elementName.t = "function"
     /\ c.elementName.ret.k = "value"
     /\ IsTextElement(c.elementName.ret.v)

TextOf(c) == IF IsTextElement(c) THEN c ELSE c.elementName.ret.v

\* The document has one section and all its children are text children.
OnlyTextChildren ==
  /\ IsConcrete(tag)
  /\ tag.elementName = Str("document")
  /\ tag.attributes = NoAttributes
  /\ Len(tag.children) = 1
  /\ IsConcrete(tag.children[1])
  /\ IsTopLevelElement(tag.children[1].elementName)
  /\ \A i \in DOMAIN tag.children[1].children : IsTextChild(tag.children[1].children[i])

SectionTexts == [i \in DOMAIN tag.children[1].children |-> TextOf(tag.children[1].children[i])]
SectionStack == output[tag.children[1].elementName.s].o.stack.a

\* One text child is kept as it is, several are joined.
Joined(xs) ==
  IF Len(xs) <= 1 THEN xs ELSE <<Str(JoinText(xs))>>

\* C3 as stated: 0 and "" are text, not absence; 0 contributes the character
\* "0" and a sole child "" gives the resolved children [""].
C3_ZeroAndEmptyAreText ==
  (pc = "done" /\ OnlyTextChildren) => SectionStack = Joined(SectionTexts)

\* C3 as amended: a child equal to 0 or "" (raw, or returned by a
\* synchronous or suspending function-kind node) is dropped like absence; it
\* contributes no character, and a sole child 0 or "" gives [].
C3_ZeroAndEmptyAreDropped ==
  (pc = "done" /\ OnlyTextChildren) =>
    SectionStack = Joined(SelectSeq(SectionTexts, Truthy))

C3_Witness ==
  /\ pc = "done"
  /\ OnlyTextChildren
  /\ SectionTexts = <<Str("a"), Num(0), Num(12)>>
  /\ SectionStack = <<Str("a12")>>

(***************************************************************************)
(* Context.                                                                 *)
(***************************************************************************)
\* The component invocations of renderPdf followed by those of the first n
\* invocations of callables.
RECURSIVE LogUpTo(_)
LogUpTo(n) == IF n = 0 THEN log ELSE LogUpTo(n - 1) \o calls[n].log

\* Entry i wrote key k before entry j was invoked, on j's branch: at the
\* position of an ancestor of j, or earlier in j's own function chain.
WroteOnBranch(L, i, j, k) ==
  /\ i < j
  /\ k \in DOMAIN L[i].update
  /\ IsPrefix(L[i].path, L[j].path)

Max(S) == CHOOSE x \in S : \A y \in S : y <= x

WritesReachDescendants(L) ==
  \A j \in DOMAIN L :
    \A k \in UNION { DOMAIN L[i].update : i \in 1..j } :
      LET W == { i \in 1..j : WroteOnBranch(L, i, j, k) }
      IN  W # {} =>
            /\ k \in DOMAIN L[j].ctx
            /\ L[j].ctx[k] = L[Max(W)].update[k]

\* C4: a key written through the update function by a function-kind node N
\* is present, with the written value, in the context passed to every
\* function-kind node resolved afterwards inside N's subtree (and the rest
\* of N's own chain), unless a nearer ancestor on that branch overwrote it;
\* also when N wraps the document root.
C4_WritesReachDescendants ==
  \A n \in 0..Len(calls) : WritesReachDescendants(LogUpTo(n))

\* Every value seen in a context was written by an entry allowed by `from`.
SeenOnlyFrom(L, from(_, _)) ==
  \A j \in DOMAIN L :
    \A k \in DOMAIN L[j].ctx :
      \E i \in 1..(j - 1) :
        /\ k \in DOMAIN L[i].update
        /\ L[i].update[k] = L[j].ctx[k]
        /\ from(L[i], L[j])

\* The writer is on the reader's branch, or is not below a section (it is
\* in the function chain of the root or of a direct child of the document).
OnBranchOrAboveSections(w, e) == IsPrefix(w.path, e.path) \/ Len(w.path) <= 1

\* C5: below the document root, a context update made while resolving
\* child i (or a descendant of it) is never visible in the context passed to
\* a function-kind node of a sibling's subtree or to anything resolved later
\* outside child i's subtree: every child starts from a copy of its parent's
\* context.
C5_NoSiblingLeakBelowSections ==
  SeenOnlyFrom(LogUpTo(Len(calls)), OnBranchOrAboveSections)

C5_Witness ==
  \E i, j \in DOMAIN log :
    /\ i < j
    /\ Len(log[i].path) >= 2
    /\ "mytest" \in DOMAIN log[i].update
    /\ ~IsPrefix(log[i].path, log[j].path)
    /\ log[j].id = "Reader"
    /\ log[j].path[1] = log[i].path[1]
    /\ "mytest" \notin DOMAIN log[j].ctx

\* The writer is in the root's function chain or belongs to the same direct
\* child of the document as the reader.
RootOrSameSection(w, e) ==
  \/ w.path = <<>>
  \/ e.path # <<>> /\ w.path[1] = e.path[1]

\* C6: a context update made by a function-kind direct child of the
\* document, or by anything in that section's subtree, is not visible in the
\* context passed to a function-kind node resolved for a different direct
\* child of the document.
C6_SectionsIsolated ==
  SeenOnlyFrom(LogUpTo(Len(calls)), RootOrSameSection)

(***************************************************************************)
(* Render props.                                                            *)
(***************************************************************************)
\* What the synchronous child resolver gives for the subtree the stored
\* function returns for args, against a copy of the render context.
ExpectedResolved(f, args) ==
  LET c == CreateContext(heap, context)
  IN  ResolveChildrenSync(RenderPropReturn(f.fn, args), c.ref, FALSE,
                          Append(f.path, 1),
                          Machine(c.heap, <<>>, <<>>, <<>>, <<>>, NoError))

\* The columns of the header/footer tests for (currentPage, pageCount).
PageColumns(currentPage, pageCount) ==
  Obj([columns |-> Arr(<<
         Obj([stack |-> Arr(<<Str("Page " \o NumToStr(currentPage) \o " of "
                                  \o NumToStr(pageCount))>>),
              width |-> Str("*")]),
         Obj([stack |-> Arr(<<>>), width |-> Str("*")]) >>)])

\* C7: invoking the callable of a render-prop section with (currentPage,
\* totalPages, pageSize) calls the stored function once, with exactly those
\* arguments in that order, and returns { stack: [R], ...attributes } where R
\* is what the synchronous child resolver gives for the returned subtree;
\* invocations with equal arguments give equal results.
C7_CallableResult ==
  \A c \in DOMAIN calls :
    LET call == calls[c]
        f == output[call.key]
        R == ExpectedResolved(f, call.args)
    IN  /\ call.rp = <<[id |-> f.fn.id, args |-> call.args]>>
        /\ call.err = R.m.err
        /\ call.err = NoError =>
             /\ call.val.t = "object"
             /\ DOMAIN call.val.o = {"stack"} \cup DOMAIN f.attributes
             /\ \A k \in DOMAIN f.attributes : call.val.o[k] = f.attributes[k]
             /\ "stack" \notin DOMAIN f.attributes =>
                  call.val.o.stack = Arr(<<R.val>>)
             /\ f.fn.id = "pageOf" =>
                  R.val = PageColumns(call.args[1].n, call.args[2].n)
        /\ \A d \in DOMAIN calls :
             (calls[d].key = call.key /\ calls[d].args = call.args) =>
               (calls[d].val = call.val /\ calls[d].err = call.err)

C7_Witness ==
  /\ Len(calls) = 2
  /\ calls[1].args = calls[2].args
  /\ calls[1].key = calls[2].key
  /\ calls[1].args[1] # calls[1].args[2]
  /\ calls[1].err = NoError
  /\ output[calls[1].key].fn.id = "pageOf"
  /\ "margin" \in DOMAIN calls[1].val.o

\* The validateTag calls made for the direct children of the document.
SectionVisits ==
  { v \in Range(visited) :
      Len(v.path) = 1 /\ v.isTopLevel /\ v.path[1] \in DOMAIN assigned /\ ~v.text /\ ~v.falsy }

\* C8: renderPdf assigns a callable as a section's value if and only if the
\* section's fully resolved kind is header or footer and its child sequence
\* is exactly one function value, and then the stored function is not
\* invoked during renderPdf; in every other case the value is a static
\* mapping.
C8_CallableIffLoneFunctionChild ==
  /\ rp = <<>>
  /\ \A v \in SectionVisits :
       LET val == assigned[v.path[1]].val
       IN  /\ IsCallable(val) <=>
                (v.elementName.s \in {"header", "footer"} /\ v.childTypes = <<"function">>)
           /\ ~IsCallable(val) => val.t = "object"

C8_Witness ==
  /\ pc = "done"
  /\ \E v \in SectionVisits :
       /\ IsCallable(assigned[v.path[1]].val)
       /\ v.elementName.s = "footer"
       /\ Len(log) = 1
       /\ log[1].id = "Async"

\* The value contains an async component or a promise that resolution of
\* the value meets.
RECURSIVE ContainsPending(_)
ContainsPending(v) ==
  CASE v.t = "promise" -> TRUE
    [] v.t = "node" ->
         IF v.elementName.t = "function"
         THEN \/ v.elementName.async
              \/ ContainsPending(
                   ComponentReturn(v.elementName,
                                   Spread(v.attributes, [children |-> Arr(v.children)]),
                                   NoAttributes))
         ELSE \E i \in DOMAIN v.children : ContainsPending(v.children[i])
    [] OTHER -> FALSE

\* The value with every async component made synchronous and every promise
\* replaced by its value.
RECURSIVE Settled(_)
Settled(v) ==
  CASE v.t = "promise" -> Settled(v.value)
    [] v.t = "node" ->
         [v EXCEPT
            !.elementName =
               IF @.t = "function"
               THEN [@ EXCEPT !.async = FALSE,
                              !.ret = IF @.k = "value"
                                      THEN [@ EXCEPT !.v = Settled(@)] ELSE @]
               ELSE @,
            !.children = [i \in DOMAIN @ |-> Settled(@[i])]]
    [] OTHER -> v

\* The subtree is valid apart from being pending.
OtherwiseValid(f, body) ==
  LET c == CreateContext(heap, context)
  IN  ~Failed(ResolveChildrenSync(Settled(body), c.ref, FALSE, Append(f.path, 1),
                                  Machine(c.heap, <<>>, <<>>, <<>>, <<>>, NoError)).m)

PendingBody(f, args) ==
  LET body == RenderPropReturn(f.fn, args)
  IN  ContainsPending(body) /\ OtherwiseValid(f, body)

\* C9: when the otherwise valid subtree returned by a render prop contains
\* an async component or a pending value at any depth, renderPdf still
\* resolves with a callable for the section, and every invocation of the
\* callable throws the TypeError 'Async components are not permitted in a
\* synchronous context'.
C9_AsyncInRenderPropThrows ==
  /\ \A i \in DOMAIN assigned :
       (IsCallable(assigned[i].val)
          /\ PendingBody(assigned[i].val, <<Num(1), Num(1), Undefined>>))
         => error = NoError
  /\ \A c \in DOMAIN calls :
       PendingBody(output[calls[c].key], calls[c].args) =>
         /\ calls[c].err = ErrAsync
         /\ calls[c].err.name = "TypeError"
         /\ calls[c].val = Undefined

C9_Witness ==
  /\ Len(calls) = 2
  /\ \A c \in DOMAIN calls :
       /\ output[calls[c].key].fn.id = "deepAsync"
       /\ calls[c].err = ErrAsync

\* Every validateTag call: of renderPdf and of the callable invocations.
NestedTopLevel(v) ==
  ~v.isTopLevel /\ ~v.text /\ ~v.falsy /\ IsTopLevelElement(v.elementName)

MisplacedAtTopLevel(v) ==
  /\ v.isTopLevel
  /\ ~v.text
  /\ ~v.falsy
  /\ v.elementName.t = "string"
  /\ ~IsTopLevelElement(v.elementName)

IsErrTopLevel(e) ==
  \E name \in {"text", "stack", "document", "columns"} : e = ErrTopLevel(Str(name))

RECURSIVE FullyResolved(_)
FullyResolved(t) ==
  IF t.t = "promise" THEN FullyResolved(t.value)
  ELSE IF t.t = "node" /\ t.elementName.t = "function"
  THEN FullyResolved(
         ComponentReturn(t.elementName,
                         Spread(t.attributes, [children |-> Arr(t.children)]),
                         NoAttributes))
  ELSE t

IsDocument(v) == v.t = "node" /\ v.elementName = Str("document")

\* C12: a root whose fully resolved value is not a node of kind document (a
\* node of another symbolic kind, a text primitive, null or undefined) makes
\* renderPdf reject with 'The root element must resolve to a <document>,
\* actually resolved to K', K the resolved kind, before any child is resolved.
C12_RootTypeError ==
  (pc # "start" /\ ~IsDocument(FullyResolved(tag))) =>
    /\ pc = "rejected"
    /\ error = ErrRoot(ElementNameOf(FullyResolved(tag)))
    /\ visited = <<>>
    /\ assigned = <<>>

\* validateTag met a node of kind document.
IsDocumentVisit(v) == ~v.text /\ ~v.falsy /\ v.elementName = Str("document")

\* The error of a resolution whose validateTag calls are vs came from below
\* the node visited at path p.
RaisedBelow(vs, p) ==
  /\ vs # <<>>
  /\ Len(vs[Len(vs)].path) > Len(p)
  /\ IsPrefix(p, vs[Len(vs)].path)

\* C13 as stated: a node of kind document reached anywhere but as the
\* absolute root, as a direct child of the root document or deeper, makes
\* renderPdf reject with '<document> can only appear as the root element',
\* whatever its position and its children.
C13_DocumentBelowRootIsRootError ==
  \A v \in Range(visited) :
    IsDocumentVisit(v) => (pc = "rejected" /\ error = ErrDocument)

\* C13, amended: a node of kind document reached anywhere but as the absolute
\* root always ends the resolution with an error.  As a direct child of the
\* root document the error is 'The <document> element can only contain ...
\* but found document'.  Deeper, it is '<document> can only appear as the
\* root element', raised once the document's own children have resolved, so
\* an error of those children comes first; inside the subtree a render prop
\* returns, the invocation of the callable throws it.
C13_DocumentBelowRootIsAnError ==
  /\ \A v \in Range(visited) :
       IsDocumentVisit(v) =>
         /\ pc = "rejected"
         /\ v.isTopLevel => error = ErrTopLevel(Str("document"))
         /\ ~v.isTopLevel => (error = ErrDocument \/ RaisedBelow(visited, v.path))
  /\ error = ErrDocument =>
       \E v \in Range(visited) : IsDocumentVisit(v) /\ ~v.isTopLevel
  /\ \A c \in DOMAIN calls :
       /\ \A v \in Range(calls[c].visited) :
            IsDocumentVisit(v) =>
              (calls[c].err = ErrDocument \/ RaisedBelow(calls[c].visited, v.path))
       /\ calls[c].err = ErrDocument =>
            \E v \in Range(calls[c].visited) : IsDocumentVisit(v)

C13_Witness ==
  /\ pc = "rejected"
  /\ error = ErrDocument
  /\ error.message = "<document> can only appear as the root element"
  /\ \E v \in Range(visited) :
       /\ IsDocumentVisit(v)
       /\ Len(v.path) = 3
       /\ v.childTypes = <<"node">>

(***************************************************************************)
(* The returned mapping.                                                    *)
(***************************************************************************)
\* The kind of the i-th direct child of the document, fully resolved.
SectionKind(i) == ElementNameOf(FullyResolved(ChildrenOf(resolvedTag)[i]))

\* No later section and no attribute of the document has the key of the
\* i-th assignment.
KeptKey(i) ==
  /\ \A j \in DOMAIN assigned : j > i => assigned[j].key # assigned[i].key
  /\ assigned[i].key \notin DOMAIN AttributesOf(resolvedTag)

\* C14: when renderPdf returns, every key of the returned mapping is header,
\* content, footer or a key of the document's attributes, and for each direct
\* child of the document, also one reached through a chain of synchronous or
\* asynchronous function-kind nodes, the value stored under the child's fully
\* resolved kind is the child's resolved subtree.
C14_KeysAreSectionKinds ==
  pc = "done" =>
    /\ DOMAIN output \subseteq (TopLevelNames \cup DOMAIN AttributesOf(resolvedTag))
    /\ Len(assigned) = Len(ChildrenOf(resolvedTag))
    /\ \A i \in DOMAIN assigned :
         /\ SectionKind(i).t = "string"
         /\ assigned[i].key = SectionKind(i).s
         /\ KeptKey(i) => output[SectionKind(i).s] = assigned[i].val

\* The value last assigned under key k.
LastAssigned(k) ==
  assigned[CHOOSE i \in DOMAIN assigned :
             /\ assigned[i].key = k
             /\ \A j \in DOMAIN assigned : assigned[j].key = k => j <= i].val

AssignedKeys == { assigned[i].key : i \in DOMAIN assigned }

\* C15: the document's own attributes are merged over the sections at depth
\* 0: every attribute key k has output[k] equal to the attribute value
\* unchanged, also when k is the name of a present section, and every section
\* whose name is no attribute key keeps its resolved value.
C15_AttributesMergedOverSections ==
  pc = "done" =>
    LET attributes == AttributesOf(FullyResolved(tag))
    IN  /\ DOMAIN output = AssignedKeys \cup DOMAIN attributes
        /\ \A k \in DOMAIN attributes : output[k] = attributes[k]
        /\ \A k \in AssignedKeys \ DOMAIN attributes : output[k] = LastAssigned(k)

C15_Witness ==
  /\ pc = "done"
  /\ AttributesOf(tag) = [content |-> Str("mine")]
  /\ AssignedKeys = {"content", "footer"}
  /\ LastAssigned("content") = Obj([stack |-> Arr(<<Str("x")>>)])
  /\ output = [content |-> Str("mine"), footer |-> Obj([stack |-> Arr(<<Str("y")>>)])]

(***************************************************************************)
(* Numbers.                                                                 *)
(***************************************************************************)
\* xs[i] is a number with no text primitive next to it.
Isolated(xs, i) ==
  /\ xs[i].t = "number"
  /\ i = 1 \/ ~IsTextElement(xs[i - 1])
  /\ i = Len(xs) \/ ~IsTextElement(xs[i + 1])

RECURSIVE IsolatedNumbers(_, _)
IsolatedNumbers(xs, i) ==
  IF i > Len(xs) THEN <<>>
  ELSE (IF Isolated(xs, i) THEN <<xs[i]>> ELSE <<>>) \o IsolatedNumbers(xs, i + 1)

\* The document has one section with one child, a number.
OnlyNumberChild ==
  /\ OnlyTextChildren
  /\ Len(SectionTexts) = 1
  /\ SectionTexts[1].t = "number"

\* C16 as stated: a child sequence that resolves to a single number keeps
\* that number unchanged in the parent's resolved children.
C16_SingleNumberKept ==
  (pc = "done" /\ OnlyNumberChild) => SectionStack = SectionTexts

\* C16, amended: a child sequence that resolves to a single number other than
\* 0 leaves that number, not its string, in the parent's resolved children
\* (only 12 gives [12]), while a single 0 leaves nothing; a number becomes
\* part of a string only when it is joined with an adjacent text primitive.
C16_LoneNumberStaysNumber ==
  /\ (pc = "done" /\ OnlyNumberChild) =>
       SectionStack = IF SectionTexts[1].n = 0 THEN <<>> ELSE SectionTexts
  /\ \A r \in AccRecords :
       /\ \A n \in {3, 12} :
            Present(r.vals) = <<Num(n)>> => r.resolvedChildren = <<Num(n)>>
       /\ SelectSeq(r.resolvedChildren, LAMBDA v : v.t = "number")
            = IsolatedNumbers(Present(r.vals), 1)

C16_Witness ==
  /\ pc = "done"
  /\ OnlyNumberChild
  /\ output = [content |-> Obj([stack |-> Arr(<<Num(12)>>)])]
  /\ \E r \in Range(accs) :
       /\ r.vals = <<Num(12)>>
       /\ r.resolvedChildren = <<Num(12)>>

(***************************************************************************)
(* The node builder.                                                        *)
(***************************************************************************)
\* The non-sequence values of a grouping, left to right.
RECURSIVE LeavesOf(_)
LeavesOf(v) ==
  IF v.t # "array" THEN <<v>>
  ELSE IF v.a = <<>> THEN <<>>
  ELSE LeavesOf(Head(v.a)) \o LeavesOf(Arr(Tail(v.a)))

\* The number of non-sequence values of a grouping.
RECURSIVE LeafCount(_)
LeafCount(v) ==
  IF v.t # "array" THEN 1
  ELSE IF v.a = <<>> THEN 0
  ELSE LeafCount(Head(v.a)) + LeafCount(Arr(Tail(v.a)))

\* C17: createElement(kind, attributes, ...children) returns a node whose
\* children are one flat sequence with no sequence value in it, the
\* non-sequence children in their left-to-right order, nothing for an empty
\* grouping, and whose attributes are the empty mapping when attributes is
\* null.
C17_ChildrenAreFlat ==
  pc = "created" =>
    /\ element.elementName = createArgs.elementName
    /\ \A i \in DOMAIN element.children : element.children[i].t # "array"
    /\ element.children = LeavesOf(Arr(createArgs.children))
    /\ Len(element.children) = LeafCount(Arr(createArgs.children))
    /\ createArgs.children = <<Arr(<<Arr(<<>>), Str("a")>>), Num(1)>> =>
         element.children = <<Str("a"), Num(1)>>
    /\ element.attributes =
         IF createArgs.attributes = Null THEN NoAttributes ELSE createArgs.attributes

C17_Witness ==
  /\ pc = "created"
  /\ createArgs.attributes = Null
  /\ createArgs.children = <<Arr(<<Arr(<<Num(1)>>), Null>>), Str("a")>>
  /\ element = Node(Str("stack"), NoAttributes, <<Num(1), Null, Str("a")>>)

(***************************************************************************)
(* Chains of function-kind nodes.                                           *)
(***************************************************************************)
\* The tree with every async component made synchronous.
RECURSIVE Synchronous(_)
Synchronous(v) ==
  IF v.t = "function"
  THEN [v EXCEPT !.async = FALSE,
                 !.ret = IF @.k = "value" THEN [@ EXCEPT !.v = Synchronous(@)] ELSE @]
  ELSE IF v.t = "node"
  THEN [v EXCEPT !.elementName = Synchronous(@),
                 !.children = [j \in DOMAIN @ |-> Synchronous(@[j])]]
  ELSE v

\* The tree holds an async component.
RECURSIVE HasAsync(_)
HasAsync(v) ==
  IF v.t = "function"
  THEN v.async \/ (v.ret.k = "value" /\ HasAsync(v.ret.v))
  ELSE IF v.t = "node"
  THEN HasAsync(v.elementName) \/ \E j \in DOMAIN v.children : HasAsync(v.children[j])
  ELSE FALSE

\* The tree holds a function value as a child (a render prop).
RECURSIVE HasFunctionChild(_)
HasFunctionChild(v) ==
  IF v.t = "function"
  THEN v.ret.k = "value" /\ HasFunctionChild(v.ret.v)
  ELSE IF v.t = "node"
  THEN \/ HasFunctionChild(v.elementName)
       \/ \E j \in DOMAIN v.children :
            v.children[j].t = "function" \/ HasFunctionChild(v.children[j])
  ELSE FALSE

\* What renderPdf gives for the same tree with synchronous components only.
SameAsSynchronous ==
  LET r == RenderPdf(Synchronous(tag))
  IN  /\ (pc = "done") = (r.status = "done")
      /\ (pc = "rejected") => error = r.m.err
      /\ (pc = "done") => output = r.output

\* C18: in asynchronous resolution a chain of function-kind nodes collapses
\* fully whichever links suspend; an async component whose awaited result is
\* a function-kind node has that node invoked before validation and mapping,
\* so the result is the one obtained with synchronous components only.
C18_AsyncChainsCollapse ==
  (pc \in {"done", "rejected"} /\ HasAsync(tag) /\ ~HasFunctionChild(tag))
    => SameAsSynchronous

(***************************************************************************)
(* The two child resolvers.                                                 *)
(***************************************************************************)
\* The tree holds a pending value.
RECURSIVE HasPromise(_)
HasPromise(v) ==
  IF v.t = "promise" THEN TRUE
  ELSE IF v.t = "function"
  THEN v.ret.k = "value" /\ HasPromise(v.ret.v)
  ELSE IF v.t = "node"
  THEN HasPromise(v.elementName) \/ \E j \in DOMAIN v.children : HasPromise(v.children[j])
  ELSE FALSE

NoSuspension(v) == ~HasAsync(v) /\ ~HasPromise(v)

\* C19: for a subtree with no async component and no pending value, resolved
\* below the top level under equal contexts, resolveChildrenSync and
\* resolveChildren give the same result: equal values, or the same error;
\* they also invoke the same components with the same contexts.
C19_ResolversAgree ==
  (syncResult.done /\ asyncResult.done /\ NoSuspension(branch.tag)) =>
    /\ syncResult.err = asyncResult.err
    /\ syncResult.val = asyncResult.val
    /\ syncResult.log = asyncResult.log
    /\ syncResult.heap = asyncResult.heap

C19_Witness ==
  /\ syncResult.done
  /\ asyncResult.done
  /\ NoSuspension(branch.tag)
  /\ branch.parentContext = [mytest |-> Str("outer")]
  /\ branch.tag = El("stack", <<Use(Writer("W1"), <<>>), Use(Reader, <<>>)>>)
  /\ syncResult.err = NoError
  /\ syncResult.val =
       Obj([stack |-> Arr(<<Obj([text |-> Str("first")]), Obj([text |-> Str("outer")])>>)])
  /\ Len(syncResult.log) = 2
  /\ asyncResult = syncResult

(***************************************************************************)
(* Order of resolution.                                                     *)
(***************************************************************************)
\* Path p comes no later than path q in a depth-first, left-to-right walk.
RECURSIVE PathLeq(_, _)
PathLeq(p, q) ==
  IF p = <<>> THEN TRUE
  ELSE IF q = <<>> THEN FALSE
  ELSE IF Head(p) # Head(q) THEN Head(p) < Head(q)
  ELSE PathLeq(Tail(p), Tail(q))

\* The invocations of L happened in tree order.
InTreeOrder(L) ==
  \A i, j \in DOMAIN L : i < j => PathLeq(L[i].path, L[j].path)

\* No component of the resolution wrote to the context.
NoContextWrites == \A i \in DOMAIN log : log[i].update = NoAttributes

\* What the asynchronous resolver gives for c alone, below the top level.
Alone(c) ==
  ResolveChildren(c, 1, FALSE, <<>>,
                  Machine(<<NoAttributes>>, <<>>, <<>>, <<>>, <<>>, NoError)).val

\* C20: siblings are resolved in sequence, left to right, at every level:
\* function-kind nodes are invoked in tree order, the document's children are
\* assigned in their order, and the values a child loop collects are, position
\* by position, those of its children, whichever of them are async, each
\* awaited before the next child is taken; the accumulator is the
\* left-to-right coalescing of these values.
C20_SiblingsInSequence ==
  /\ InTreeOrder(log)
  /\ InTreeOrder(visited)
  /\ \A c \in DOMAIN calls : InTreeOrder(calls[c].log)
  /\ Len(assigned) = idx - 1
  /\ \A i \in DOMAIN assigned : \E v \in Range(visited) : v.path = <<i>>
  /\ \A r \in Range(accs) :
       ~r.sync => \A j \in DOMAIN r.vals : r.vals[j].t # "promise"
  /\ NoContextWrites =>
       \A r \in Range(accs) :
         r.path \in ConcretePaths(tag) =>
           /\ Len(r.vals) = Len(ChildrenAt(tag, r.path))
           /\ \A j \in DOMAIN r.vals : r.vals[j] = Alone(ChildrenAt(tag, r.path)[j])
           /\ r.resolvedChildren = Coalesced(Present(r.vals))

C20_Witness ==
  /\ pc = "done"
  /\ tag = Document(<<El("content", <<Str("a"),
                                      Use(Returning("AsyncThree", TRUE, Num(3)), <<>>),
                                      Num(12)>>)>>)
  /\ NoContextWrites
  /\ \E r \in Range(accs) :
       /\ r.path = <<1>>
       /\ r.vals = <<Str("a"), Num(3), Num(12)>>
       /\ r.resolvedChildren = <<Str("a312")>>
  /\ Len(log) = 1
  /\ log[1].path = <<1, 2>>

(***************************************************************************)
(* The first error ends the resolution.                                     *)
(***************************************************************************)
ThrowerIds == { t.id : t \in Throwers }

\* Nothing recorded in L lies after path p in traversal order.
NothingAfter(L, p) == \A i \in DOMAIN L : PathLeq(L[i].path, p)

\* Nothing recorded in L lies after the subtree of path p in traversal order.
NothingAfterSubtree(L, p) ==
  \A i \in DOMAIN L : PathLeq(L[i].path, p) \/ IsPrefix(p, L[i].path)

\* The validateTag calls at a document below the top level.
NestedDocumentVisits ==
  { i \in DOMAIN visited : IsDocumentVisit(visited[i]) /\ ~visited[i].isTopLevel }


\* C21: an error raised while renderPdf runs (a placement error, a root error,
\* an error thrown or rejected by a component, a rejected child) makes
\* renderPdf reject with that error, the first one raised: no document is
\* returned even when earlier sections had resolved, nothing is assigned for
\* the failing child or a later one, and no function-kind node and no node
\* that comes later in traversal order is invoked or validated.
C21_FirstErrorAborts ==
  /\ error # NoError <=> pc = "rejected"
  /\ \A i \in DOMAIN log :
       log[i].id \in ThrowerIds => (i = Len(log) /\ error = ErrThrown)
  /\ pc = "rejected" =>
       /\ output = NoAttributes
       /\ calls = <<>>
       /\ Len(assigned) = idx - 1
       /\ \A l \in Range(log) : l.id # "Late"
       /\ \A r \in Range(log) \cup Range(visited) :
            r.path # <<>> => r.path[1] <= idx
       /\ CASE error = ErrThrown ->
                 /\ log # <<>>
                 /\ log[Len(log)].id \in ThrowerIds
                 /\ NothingAfter(log, log[Len(log)].path)
                 /\ NothingAfter(visited, log[Len(log)].path)
                 /\ \A v \in Range(visited) : v.path # log[Len(log)].path
            [] error = ErrImmediate \/ IsErrTopLevel(error) ->
                 /\ visited # <<>>
                 /\ NothingAfter(log, visited[Len(visited)].path)
                 /\ NothingAfter(visited, visited[Len(visited)].path)
            [] error = ErrDocument ->
                 /\ NestedDocumentVisits # {}
                 /\ NothingAfterSubtree(log, visited[Max(NestedDocumentVisits)].path)
                 /\ NothingAfterSubtree(visited, visited[Max(NestedDocumentVisits)].path)
            [] error = ErrRejected ->
                 \A l \in Range(log) : l.id \in {"Early"}
            [] OTHER ->
                 /\ assigned = <<>>
                 /\ visited = <<>>
                 /\ \A l \in Range(log) : l.path = <<>>

C21_Witness ==
  /\ pc = "rejected"
  /\ tag = Document(<<El("header", <<Early>>),
                      El("content", <<El("stack", <<Use(Fn("AsyncThrows", TRUE, NoAttributes,
                                                           [k |-> "throw"]), <<>>)>>),
                                      Late>>),
                      El("footer", <<Late>>)>>)
  /\ error = ErrThrown
  /\ Len(assigned) = 1
  /\ assigned[1].key = "header"
  /\ idx = 2
  /\ Len(log) = 2
  /\ log[2].path = <<2, 1, 1>>
  /\ output = NoAttributes

(***************************************************************************)
(* The context of a render prop's subtree.                                  *)
(***************************************************************************)
\* The render context after the writes of the function-kind nodes of L that
\* are the root or a direct child of the document and come no later than
\* path p.
RECURSIVE WrittenUpTo(_, _, _)
WrittenUpTo(L, p, ctx) ==
  IF L = <<>> THEN ctx
  ELSE WrittenUpTo(Tail(L), p,
                   IF Len(Head(L).path) <= 1 /\ PathLeq(Head(L).path, p)
                   THEN Spread(ctx, Head(L).update)
                   ELSE ctx)

\* C22: the first function-kind node of the subtree a render prop returns
\* sees, in every invocation of the callable, the branch context as it was
\* when renderPdf produced the callable: writes made later, by components of
\* later top-level sections or during an earlier invocation, are not seen.
C22_CallableSeesContextAtProduction ==
  \A c \in DOMAIN calls :
    calls[c].log # <<>> =>
      calls[c].log[1].ctx = WrittenUpTo(log, output[calls[c].key].path, NoAttributes)

(***************************************************************************)
(* Absence in the child sequences.                                          *)
(***************************************************************************)
\* The keys under which the mapper and the callable put a child sequence.
ChildSequenceKeys == {"stack", "columns", "text", "ul", "ol", "body", "table"}

\* Some child sequence of v (a row array included) has null or undefined as
\* an element.
RECURSIVE HasAbsentElement(_)
HasAbsentElement(v) ==
  CASE v.t = "array" ->
         \E j \in DOMAIN v.a : IsNil(v.a[j]) \/ HasAbsentElement(v.a[j])
    [] v.t = "object" ->
         \E k \in DOMAIN v.o \cap ChildSequenceKeys : HasAbsentElement(v.o[k])
    [] OTHER -> FALSE

\* C23: no child sequence (stack, columns, text, ul, ol, table body, row
\* array) of a value renderPdf produced or of a value an invocation of a
\* render-prop callable returned has null or undefined as an element, also
\* when a component or a render prop returns null, undefined or a node of an
\* unrecognised kind.
C23_AbsenceNeverAppended ==
  /\ \A i \in DOMAIN assigned : ~HasAbsentElement(assigned[i].val)
  /\ \A k \in DOMAIN output : ~HasAbsentElement(output[k])
  /\ \A r \in AccRecords : \A j \in DOMAIN r.resolvedChildren :
       ~IsNil(r.resolvedChildren[j])
  /\ \A c \in DOMAIN calls :
       calls[c].err = NoError => ~HasAbsentElement(calls[c].val)

====
